---- MODULE Spec2Model ----
(***************************************************************************)
(* A model of the Digital Wellness App (src/app.py): the score engine, the *)
(* CSV-backed entry store, the aggregations, and the Streamlit session     *)
(* that drives them.  One action is one rerun of the script.               *)
(*                                                                         *)
(* Dates are whole days counted from the day the session runs (Today).     *)
(* The persisted store is the sequence of data rows of wellness_data.csv,  *)
(* each cell as the text (or number) that to_csv wrote; what the program   *)
(* works on is the frame read_csv parses from it.  Text cells go through   *)
(* pandas' default NA tokens on the way in and the empty field on the way  *)
(* out; numbers and the ISO dates to_csv writes read back as they were,    *)
(* and the date column of a frame without rows is taken to be a date       *)
(* column like any other.                                                  *)
(***************************************************************************)
EXTENDS Integers, Sequences, FiniteSets, TLC

VARIABLES
    fileExists,   \* os.path.exists(DATA_FILE)
    file,         \* the data rows of DATA_FILE, in storage order
    session,      \* st.session_state
    op,           \* the handler the last rerun executed
    entry,        \* the entry the rerun built (line 148), if it built one
    ret,          \* what save_entry returned in the last rerun
    shown,        \* the messages the last rerun displayed
    arg,          \* input of a directly called helper function
    out           \* the rows a view rendered / a helper returned

vars == <<fileExists, file, session, op, entry, ret, shown, arg, out>>

---------------------------------------------------------------------------
(* Bounds of the model *)

\* the past day the date picker is used for lies this many days back
PastDays == 6
\* a store larger than this is never written
MaxRows == 2
\* the longest stored file load_data is called on directly
MaxLoadRows == 3
\* how far beyond the documented ranges the score is called
Beyond == 2

---------------------------------------------------------------------------
(* Program constants *)

SCORE_MIN == 0
SCORE_MAX == 100
\* datetime.now().date(): the origin of the day count
Today == 0
\* the upper ends of the check-in form's number inputs and slider
SleepMax == 12
ScreenMax == 24
StressMax == 10

\* pandas' default na_values: cells read_csv turns into NaN
NaValues == {"", "#N/A", "#N/A N/A", "#NA", "-1.#IND", "-1.#QNAN", "-NaN",
             "-nan", "1.#IND", "1.#QNAN", "<NA>", "N/A", "NA", "NULL", "NaN",
             "n/a", "nan", "null"}

\* the missing value of a parsed frame (never equal to a typed text)
NaN == "float(nan)"

Moods == {"Happy", "Tired", "Sad", "Anxious", "Stressed"}

---------------------------------------------------------------------------
(* Score engine *)

Max(a, b) == IF a >= b THEN a ELSE b
Min(a, b) == IF a <= b THEN a ELSE b

\* a clip that forgets the upper limit
ClipLower(x, lo, hi) == Max(x, lo)

\* np.clip
Clip(x, lo, hi) == Min(Max(x, lo), hi)

\* The three sub-scores and their sum, in thirds of a point so that the
\* screen term (30/9 per hour) stays integral.  The number inputs and the
\* slider deliver integers, and for integers the floats of the source
\* truncate to the same score as these exact values.
SleepScore3(sleep) == 3 * Clip(5 * sleep, 0, 40)

\* the stress term without the inversion: more stress, more points
StressScore3Direct(stress) == 3 * Clip(3 * stress, 0, 30)

StressScore3(stress) == 3 * Clip(3 * (10 - stress), 0, 30)
ScreenScore3(screen) ==
    IF screen <= 3 THEN 90 ELSE Max(0, 90 - (screen - 3) * 10)

compute_wellness_score(sleep, screen, stress) ==
    Clip(SleepScore3(sleep) + StressScore3(stress) + ScreenScore3(screen),
         3 * SCORE_MIN, 3 * SCORE_MAX) \div 3

Lower(mood) ==
    CASE mood = "Happy" -> "happy"
      [] mood = "Tired" -> "tired"
      [] mood = "Sad" -> "sad"
      [] mood = "Anxious" -> "anxious"
      [] mood = "Stressed" -> "stressed"
      [] OTHER -> mood

\* the advice fragments, without their emoji
generate_tip(sleep, screen, stress, mood) ==
    (IF sleep < 6 THEN "Try sleeping 7-8 hours. " ELSE "")
    \o (IF screen > 8 THEN "Too much screen time! Reduce it. " ELSE "")
    \o (IF stress >= 7 THEN "High stress! Try breathing exercises. " ELSE "")
    \o (IF Lower(mood) \in {"tired", "exhausted"}
        THEN "Take a power nap. " ELSE "")

---------------------------------------------------------------------------
(* Entry store *)

\* read_csv on one text cell: the default NA tokens become NaN
ParseText(cell) == IF cell \in NaValues THEN NaN ELSE cell

\* to_csv on one text cell: NaN is written as the empty field
FormatText(value) == IF value = NaN THEN "" ELSE value

\* pd.read_csv(DATA_FILE, parse_dates=["date"], dayfirst=True): the text
\* columns are parsed cell by cell; the numeric columns and the ISO dates
\* that to_csv wrote read back as the numbers and days they were.
ReadRow(r) ==
    [r EXCEPT !.username = ParseText(r.username),
              !.mood = ParseText(r.mood),
              !.tip = ParseText(r.tip),
              !.journal = ParseText(r.journal)]

read_csv(rows) == [i \in 1..Len(rows) |-> ReadRow(rows[i])]

WriteRow(r) ==
    [r EXCEPT !.username = FormatText(r.username),
              !.mood = FormatText(r.mood),
              !.tip = FormatText(r.tip),
              !.journal = FormatText(r.journal)]

\* df.to_csv(DATA_FILE, index=False)
to_csv(df) == [i \in 1..Len(df) |-> WriteRow(df[i])]

\* the rows of df at the indices of keep, in order
RECURSIVE SelectRows(_, _, _)
SelectRows(df, keep, i) ==
    IF i > Len(df) THEN <<>>
    ELSE IF i \in keep THEN <<df[i]>> \o SelectRows(df, keep, i + 1)
    ELSE SelectRows(df, keep, i + 1)

\* drop_duplicates keeping the first row of a key (keep="first")
drop_duplicates_first(df) ==
    SelectRows(df,
               {i \in 1..Len(df) :
                   ~ \E j \in 1..(i - 1) :
                       /\ df[j].username = df[i].username
                       /\ df[j].date = df[i].date},
               1)

\* df.drop_duplicates(subset=["username", "date"], keep="last"); missing
\* values count as equal to each other here
drop_duplicates(df) ==
    SelectRows(df,
               {i \in 1..Len(df) :
                   ~ \E j \in (i + 1)..Len(df) :
                       /\ df[j].username = df[i].username
                       /\ df[j].date = df[i].date},
               1)

\* ensure_datafile(): a missing file is created with the header only
ensure_datafile(exists, rows) == IF exists THEN rows ELSE <<>>

\* load_data()
load_data(exists, rows) ==
    drop_duplicates(read_csv(ensure_datafile(exists, rows)))

\* elementwise ==: a missing value equals nothing
SeriesEq(value, x) == value # NaN /\ value = x

\* line 28: the duplicate test of save_entry
EntryExists(df, e) ==
    \E i \in 1..Len(df) :
        SeriesEq(df[i].username, e.username) /\ df[i].date = e.date

\* save_entry(entry): the value it returns ...
save_entry_result(exists, rows, e) == ~ EntryExists(load_data(exists, rows), e)

\* ... and the rows of DATA_FILE after it
save_entry_file(exists, rows, e) ==
    LET df == load_data(exists, rows)
    IN  IF EntryExists(df, e)
        THEN ensure_datafile(exists, rows)
        ELSE to_csv(Append(df, e))

\* the Delete All Data button forgetting to rewrite the file
cleared_file_kept(exists, rows) == ensure_datafile(exists, rows)

\* lines 286-288: ensure_datafile(), then an empty frame written over it
cleared_file(exists, rows) == to_csv(<<>>)

---------------------------------------------------------------------------
(* Aggregator *)

\* boolean-mask selection df[mask]
Mask(df, keep) == SelectRows(df, keep, 1)

\* df[df["username"] == username]
RowsOfUser(df, username) ==
    Mask(df, {i \in 1..Len(df) : SeriesEq(df[i].username, username)})

\* sort_values on the date: ascending, rows of one day in frame order
RECURSIVE InsertByDate(_, _)
InsertByDate(sorted, r) ==
    IF sorted = <<>> THEN <<r>>
    ELSE IF Head(sorted).date <= r.date
         THEN <<Head(sorted)>> \o InsertByDate(Tail(sorted), r)
         ELSE <<r>> \o sorted

RECURSIVE SortByDate(_)
SortByDate(df) ==
    IF df = <<>> THEN <<>>
    ELSE InsertByDate(SortByDate(SubSeq(df, 1, Len(df) - 1)), df[Len(df)])

\* .tail(n)
TailN(df, n) == SubSeq(df, Max(1, Len(df) - n + 1), Len(df))

\* get_last_n_days(df, n, username); username "" stands for None
get_last_n_days(df, n, username) ==
    LET df_user == IF username # "" THEN RowsOfUser(df, username) ELSE df
        start == Today - (n - 1)
    IN  TailN(SortByDate(Mask(df_user,
                              {i \in 1..Len(df_user) : df_user[i].date >= start})),
              n)

\* lines 236-242: the rows of the chosen period
PeriodRows(df, type) ==
    LET week_ago == Today - 6
    IN  IF type = "Daily"
        THEN Mask(df, {i \in 1..Len(df) : df[i].date = Today})
        ELSE Mask(df, {i \in 1..Len(df) :
                         df[i].date >= week_ago /\ df[i].date <= Today})

RECURSIVE SumScores(_)
SumScores(df) ==
    IF df = <<>> THEN 0 ELSE Head(df).wellness_score + SumScores(Tail(df))

\* groupby("username")["wellness_score"].mean(): one group per username
\* that is not missing; the mean is kept as the pair total / count
GroupMeans(df) ==
    { [username |-> u,
       total |-> SumScores(RowsOfUser(df, u)),
       count |-> Len(RowsOfUser(df, u))] :
      u \in {df[i].username : i \in 1..Len(df)} \ {NaN} }

\* a.mean >= b.mean
MeanGeq(a, b) == a.total * b.count >= b.total * a.count

\* line 249
Medal(r) == IF r <= 3 THEN <<"gold", "silver", "bronze">>[r] ELSE ""

\* lines 247-249: every order sort_values(ascending=False) may produce
\* (equal means in any order), each with Rank and Medal added
Leaderboards(df, type) ==
    LET groups == GroupMeans(PeriodRows(df, type))
        K == Cardinality(groups)
    IN  { [i \in 1..K |-> [username |-> order[i].username,
                           total |-> order[i].total,
                           count |-> order[i].count,
                           Rank |-> i,
                           Medal |-> Medal(i)]] :
          order \in { o \in [1..K -> groups] :
                        /\ \A i, j \in 1..K : i # j => o[i] # o[j]
                        /\ \A i \in 1..(K - 1) : MeanGeq(o[i], o[i + 1]) } }

---------------------------------------------------------------------------
(* The session: one action per rerun of the script *)

\* what the login form can submit
Names == {"alice", "NA"}
\* the date picker is not limited to today: a past day, today, tomorrow
PickDates == {Today - PastDays, Today, Today + 1}

\* what the check-in form can submit (number inputs, slider, mood, notes)
CheckinForms ==
    { [sleep_hours |-> 8, screen_time |-> 3, stress_level |-> 0,
       mood |-> "Happy", journal |-> ""],
      [sleep_hours |-> 0, screen_time |-> 24, stress_level |-> 10,
       mood |-> "Tired", journal |-> "NA"] }

\* lines 72-77; username and date_input are not set before the login
InitSession ==
    [logged_in |-> FALSE, page |-> "login", checkin_done |-> FALSE,
     username |-> "", date_input |-> Today]

\* lines 146-158
BuildEntry(username, date_input, f) ==
    [username |-> username,
     date |-> date_input,
     sleep_hours |-> f.sleep_hours,
     screen_time |-> f.screen_time,
     stress_level |-> f.stress_level,
     mood |-> f.mood,
     wellness_score |->
         compute_wellness_score(f.sleep_hours, f.screen_time, f.stress_level),
     tip |-> generate_tip(f.sleep_hours, f.screen_time, f.stress_level, f.mood),
     journal |-> f.journal]

NoEntry == BuildEntry("", Today, CHOOSE f \in CheckinForms : TRUE)

\* line 106: data = load_data(), at the top of every dashboard rerun
Data == load_data(fileExists, file)

\* line 129
today_entry(data) ==
    Mask(data, {i \in 1..Len(data) :
                  /\ SeriesEq(data[i].username, session.username)
                  /\ data[i].date = session.date_input})

Init ==
    /\ fileExists \in BOOLEAN
    /\ file = <<>>
    /\ session = InitSession
    /\ op = "init"
    /\ entry = NoEntry
    /\ ret = "none"
    /\ shown = {}
    /\ arg = <<>>
    /\ out = <<>>

\* lines 80-101: the Continue button of the login page
Login(name, d) ==
    /\ ~ session.logged_in
    /\ op' = "login"
    /\ IF name # ""
       THEN /\ session' = [session EXCEPT !.logged_in = TRUE,
                                          !.username = name,
                                          !.date_input = d,
                                          !.page = "dashboard"]
            /\ shown' = {}
       ELSE /\ session' = session
            /\ shown' = {"Please enter your name!"}
    /\ ret' = "none"
    /\ out' = <<>>
    /\ entry' = NoEntry
    /\ UNCHANGED <<fileExists, file, arg>>

\* lines 163-164: the row the analysis shows; it needs `entry`, which only
\* a rerun that pressed Submit defines
AnalysisRow(today, submitted, e) ==
    IF today # <<>> THEN <<today[Len(today)]>>
    ELSE IF submitted THEN <<e>>
    ELSE <<>>

\* lines 128-188 without the Submit button pressed
CheckinPage ==
    /\ session.logged_in
    /\ op' = "checkin"
    /\ fileExists' = TRUE
    /\ file' = ensure_datafile(fileExists, file)
    /\ LET today == today_entry(Data)
       IN  /\ out' = IF session.checkin_done \/ today # <<>>
                     THEN AnalysisRow(today, FALSE, NoEntry) ELSE <<>>
           /\ shown' = IF session.checkin_done /\ today = <<>>
                       THEN {"NameError"} ELSE {}
    /\ ret' = "none"
    /\ entry' = NoEntry
    /\ UNCHANGED <<session, arg>>

\* lines 138-162: the check-in form submitted with the values f
SubmitCheckin(f) ==
    /\ session.logged_in
    /\ LET today == today_entry(Data)
           e == BuildEntry(session.username, session.date_input, f)
           ok == save_entry_result(fileExists, file, e)
           saved == save_entry_file(fileExists, file, e)
       IN  /\ today = <<>> \/ ~ session.checkin_done
           /\ Len(saved) <= MaxRows
           /\ op' = "submit"
           /\ entry' = e
           /\ ret' = IF ok THEN "True" ELSE "False"
           /\ fileExists' = TRUE
           /\ file' = saved
           /\ shown' = (IF ok THEN {} ELSE {"already submitted"})
                       \cup {"check-in saved"}
           /\ session' = [session EXCEPT !.checkin_done = TRUE]
           /\ out' = AnalysisRow(today, TRUE, e)
    /\ UNCHANGED arg

\* lines 191-224
WeeklyOverview ==
    /\ session.logged_in
    /\ op' = "weekly"
    /\ fileExists' = TRUE
    /\ file' = ensure_datafile(fileExists, file)
    /\ LET last7 == get_last_n_days(Data, 7, session.username)
       IN  /\ out' = last7
           /\ shown' = IF last7 = <<>>
                       THEN {"No entries yet for weekly overview."} ELSE {}
    /\ ret' = "none"
    /\ entry' = NoEntry
    /\ UNCHANGED <<session, arg>>

\* lines 227-260
Leaderboard(type) ==
    /\ session.logged_in
    /\ op' = type
    /\ fileExists' = TRUE
    /\ file' = ensure_datafile(fileExists, file)
    /\ out' \in Leaderboards(Data, type)
    /\ shown' = IF out' = <<>>
                THEN {"No leaderboard records yet."} ELSE {}
    /\ ret' = "none"
    /\ entry' = NoEntry
    /\ UNCHANGED <<session, arg>>

RECURSIVE Reverse(_)
Reverse(q) == IF q = <<>> THEN <<>> ELSE Append(Reverse(Tail(q)), Head(q))

\* lines 263-281
ViewPastEntries ==
    /\ session.logged_in
    /\ op' = "past"
    /\ fileExists' = TRUE
    /\ file' = ensure_datafile(fileExists, file)
    /\ LET df_user ==
               Reverse(SortByDate(RowsOfUser(Data, session.username)))
       IN  /\ out' = df_user
           /\ shown' = IF df_user = <<>>
                       THEN {"No past entries found."} ELSE {}
    /\ ret' = "none"
    /\ entry' = NoEntry
    /\ UNCHANGED <<session, arg>>

\* lines 284-290: the Delete All Data button
ClearAll ==
    /\ session.logged_in
    /\ op' = "clear"
    /\ fileExists' = TRUE
    /\ file' = cleared_file(fileExists, file)
    /\ shown' = {"All entries deleted!"}
    /\ ret' = "none"
    /\ out' = <<>>
    /\ entry' = NoEntry
    /\ UNCHANGED <<session, arg>>

\* lines 292-295: the session state is deleted and set up anew (lines 72-77)
SwitchAccount ==
    /\ session.logged_in
    /\ op' = "switch"
    /\ fileExists' = TRUE
    /\ file' = ensure_datafile(fileExists, file)
    /\ session' = InitSession
    /\ shown' = {}
    /\ ret' = "none"
    /\ out' = <<>>
    /\ entry' = NoEntry
    /\ UNCHANGED arg

\* lines 297-298
ExitApp ==
    /\ session.logged_in
    /\ op' = "exit"
    /\ fileExists' = TRUE
    /\ file' = ensure_datafile(fileExists, file)
    /\ shown' = {}
    /\ ret' = "none"
    /\ out' = <<>>
    /\ entry' = NoEntry
    /\ UNCHANGED <<session, arg>>

Next ==
    \/ \E name \in Names \cup {""}, d \in PickDates : Login(name, d)
    \/ CheckinPage
    \/ \E f \in CheckinForms : SubmitCheckin(f)
    \/ WeeklyOverview
    \/ \E type \in {"Daily", "Weekly"} : Leaderboard(type)
    \/ ViewPastEntries
    \/ ClearAll
    \/ SwitchAccount
    \/ ExitApp

Spec == Init /\ [][Next]_vars

---------------------------------------------------------------------------
(* The score engine called directly, on and beyond the documented ranges *)

ScoreInputs ==
    [sleep_hours : (0 - Beyond)..(SleepMax + Beyond),
     screen_time : (0 - Beyond)..(ScreenMax + Beyond),
     stress_level : (0 - Beyond)..(StressMax + Beyond)]

Idle ==
    /\ session = InitSession
    /\ op = "init"
    /\ entry = NoEntry
    /\ ret = "none"
    /\ shown = {}
    /\ out = <<>>

InitScore ==
    /\ fileExists = FALSE
    /\ file = <<>>
    /\ arg \in ScoreInputs
    /\ Idle

ScoreCall ==
    /\ op = "init"
    /\ op' = "score"
    /\ out' = <<compute_wellness_score(arg.sleep_hours, arg.screen_time,
                                       arg.stress_level)>>
    /\ UNCHANGED <<fileExists, file, session, entry, ret, shown, arg>>

NextScore == ScoreCall

SpecScore == InitScore /\ [][NextScore]_vars

---------------------------------------------------------------------------
(* load_data called directly on a stored file, duplicates included *)

\* rows as to_csv writes them
StoredRows ==
    { WriteRow(BuildEntry(name, d, f)) :
        name \in Names, d \in {Today, Today + 1}, f \in CheckinForms }

StoredFiles == UNION { [1..n -> StoredRows] : n \in 0..MaxLoadRows }

InitLoad ==
    /\ fileExists \in BOOLEAN
    /\ file \in StoredFiles
    /\ fileExists \/ file = <<>>
    /\ arg = <<>>
    /\ Idle

LoadCall ==
    /\ op = "init"
    /\ op' = "load"
    /\ fileExists' = TRUE
    /\ file' = ensure_datafile(fileExists, file)
    /\ out' = load_data(fileExists, file)
    /\ UNCHANGED <<session, entry, ret, shown, arg>>

NextLoad == LoadCall

SpecLoad == InitLoad /\ [][NextLoad]_vars

---------------------------------------------------------------------------
(* The leaderboard computed directly over stores of several users *)

\* no entry, or one entry of the user for the day, as to_csv writes it
EntryChoices(name, d) ==
    {<<>>} \cup {<<WriteRow(BuildEntry(name, d, f))>> : f \in CheckinForms}

\* stores of five users: entries of today, of the oldest day of the week,
\* of the day before it and of tomorrow
BoardFiles ==
    { a1 \o a2 \o b1 \o b2 \o c \o d \o n :
        a1 \in EntryChoices("alice", Today - 6),
        a2 \in EntryChoices("alice", Today),
        b1 \in EntryChoices("bob", Today - 6),
        b2 \in EntryChoices("bob", Today),
        c \in EntryChoices("carol", Today) \cup EntryChoices("carol", Today + 1),
        d \in EntryChoices("dave", Today) \cup EntryChoices("dave", Today - 7),
        n \in EntryChoices("NA", Today) }

InitBoard ==
    /\ fileExists = TRUE
    /\ file \in BoardFiles
    /\ arg = <<>>
    /\ Idle

BoardCall(type) ==
    /\ op = "init"
    /\ op' = type
    /\ out' \in Leaderboards(load_data(fileExists, file), type)
    /\ UNCHANGED <<fileExists, file, session, entry, ret, shown, arg>>

NextBoard == \E type \in {"Daily", "Weekly"} : BoardCall(type)

SpecBoard == InitBoard /\ [][NextBoard]_vars

---------------------------------------------------------------------------
(* get_last_n_days called directly, for several n and users *)

\* stores with up to six days of alice, around both ends of the week
WindowFiles ==
    { a1 \o a2 \o a3 \o a4 \o a5 \o a6 \o b \o n :
        a1 \in EntryChoices("alice", Today + 2),
        a2 \in EntryChoices("alice", Today - 7),
        a3 \in EntryChoices("alice", Today),
        a4 \in EntryChoices("alice", Today - 6),
        a5 \in EntryChoices("alice", Today + 1),
        a6 \in EntryChoices("alice", Today - 1),
        b \in EntryChoices("bob", Today),
        n \in EntryChoices("NA", Today) }

InitWindow ==
    /\ fileExists = TRUE
    /\ file \in WindowFiles
    /\ arg = <<>>
    /\ Idle

WindowCall(n, username) ==
    /\ op = "init"
    /\ op' = "window"
    /\ arg' = [n |-> n, username |-> username]
    /\ out' = get_last_n_days(load_data(fileExists, file), n, username)
    /\ UNCHANGED <<fileExists, file, session, entry, ret, shown>>

NextWindow ==
    \E n \in {1, 2, 7}, username \in {"alice", "bob", "NA", ""} :
        WindowCall(n, username)

SpecWindow == InitWindow /\ [][NextWindow]_vars

---------------------------------------------------------------------------
(* Properties *)

\* the key of a stored row as the program reads it
SameKeyAsRead(r1, r2) ==
    /\ ReadRow(r1).username = ReadRow(r2).username
    /\ r1.date = r2.date

\* C1: save_entry on a store that already holds an entry for
\* (entry.username, entry.date) returns False and leaves the file as it was;
\* otherwise it returns True and the file becomes the previous rows plus the
\* new entry.
C1_SaveContract ==
    [][op' = "submit" =>
         IF \E i \in 1..Len(file) : /\ file[i].username = entry'.username
                                    /\ file[i].date = entry'.date
         THEN ret' = "False" /\ file' = file
         ELSE ret' = "True" /\ file' = Append(file, entry')]_vars

\* C2: starting from an empty or missing store, after any sequence of
\* check-ins and wipes the file holds at most one row for every
\* (username, date), the keys taken as the program reads them.
C2_OneEntryPerKey ==
    \A i, j \in 1..Len(file) : i # j => ~ SameKeyAsRead(file[i], file[j])

\* C3: an entry once stored stays in the file, with every field as it was
\* written, through every rerun that is not the wipe.
C3_EntriesImmutable ==
    [][op' # "clear" =>
         \A i \in 1..Len(file) : \E j \in 1..Len(file') : file'[j] = file[i]]_vars

C5_ClearAllEmptiesStore ==
    op = "clear" =>
        /\ fileExists
        /\ file = <<>>
        /\ load_data(fileExists, file) = <<>>
        /\ \A name \in Names, d \in PickDates, f \in CheckinForms :
               /\ save_entry_result(fileExists, file, BuildEntry(name, d, f))
               /\ save_entry_file(fileExists, file, BuildEntry(name, d, f))
                      = <<BuildEntry(name, d, f)>>

\* the wipe, in a session that had checked in before it
C5_Witness == op = "clear" /\ session.checkin_done /\ file = <<>>

\* C6: the score is an integer in [0, 100] for every input, those outside
\* the documented ranges included.
C6_ScoreInRange ==
    op = "score" => out[1] \in SCORE_MIN..SCORE_MAX

\* a score computed with every input outside its range
C6_Witness ==
    /\ op = "score"
    /\ arg.sleep_hours < 0
    /\ arg.screen_time > ScreenMax
    /\ arg.stress_level > StressMax
    /\ out[1] \in SCORE_MIN..SCORE_MAX

C8_WindowBounds ==
    op = "weekly" =>
        /\ Len(out) <= 7
        /\ \A k \in 1..Len(out) : out[k].username = session.username
        /\ \A k \in 1..(Len(out) - 1) : out[k].date <= out[k + 1].date
        /\ \A k \in 1..Len(out) : out[k].date \in (Today - 6)..Today

\* The window as the code computes it: at most n rows, of the given user
\* when one is given, ascending by date, no date before today - (n - 1);
\* the latest n of the rows from that day on, tomorrow's included.
WindowFromStart ==
    op = "window" =>
        /\ Len(out) <= arg.n
        /\ arg.username # "" =>
               \A k \in 1..Len(out) : out[k].username = arg.username
        /\ \A k \in 1..(Len(out) - 1) : out[k].date <= out[k + 1].date
        /\ \A k \in 1..Len(out) : out[k].date >= Today - (arg.n - 1)
        /\ \A i \in 1..Len(file) :
               /\ file[i].username = arg.username
               /\ file[i].username \notin NaValues
               /\ file[i].date >= Today - (arg.n - 1)
               /\ ~ \E k \in 1..Len(out) : out[k].date = file[i].date
               => /\ Len(out) = arg.n
                  /\ \A k \in 1..Len(out) : out[k].date > file[i].date

\* C9: the leaderboard has exactly one row per username with an entry in
\* the period, ranks 1..K in order, means non-increasing, medals on ranks
\* 1, 2, 3 only.
C9_Leaderboard ==
    op \in {"Daily", "Weekly"} =>
        LET InPeriod(r) == IF op = "Daily" THEN r.date = Today
                           ELSE r.date \in (Today - 6)..Today
            users == {file[i].username :
                        i \in {i \in 1..Len(file) : InPeriod(file[i])}}
        IN  /\ {out[k].username : k \in 1..Len(out)} = users
            /\ Len(out) = Cardinality(users)
            /\ \A k \in 1..Len(out) : out[k].Rank = k
            /\ \A k \in 1..(Len(out) - 1) : MeanGeq(out[k], out[k + 1])
            /\ \A k \in 1..Len(out) :
                   out[k].Medal = (CASE k = 1 -> "gold"
                                     [] k = 2 -> "silver"
                                     [] k = 3 -> "bronze"
                                     [] OTHER -> "")

\* The leaderboard over the usernames that read back as text: one row per
\* such username with an entry in the period, ranks 1..K, means
\* non-increasing, medals on ranks 1 to 3 only.
LeaderboardOfReadNames ==
    op \in {"Daily", "Weekly"} =>
        LET InPeriod(r) == IF op = "Daily" THEN r.date = Today
                           ELSE r.date \in (Today - 6)..Today
            users == {file[i].username :
                        i \in {i \in 1..Len(file) : InPeriod(file[i])}}
                     \ NaValues
            Rows(u) == {i \in 1..Len(file) :
                          InPeriod(file[i]) /\ file[i].username = u}
            Score(i) == file[i].wellness_score
            Total(u) == LET S == Rows(u)
                            sum[T \in SUBSET S] ==
                                IF T = {} THEN 0
                                ELSE LET x == CHOOSE x \in T : TRUE
                                     IN  Score(x) + sum[T \ {x}]
                        IN  sum[S]
        IN  /\ {out[k].username : k \in 1..Len(out)} = users
            /\ Len(out) = Cardinality(users)
            /\ \A k \in 1..Len(out) :
                   /\ out[k].Rank = k
                   /\ out[k].total = Total(out[k].username)
                   /\ out[k].count = Cardinality(Rows(out[k].username))
                   /\ out[k].Medal = (CASE k = 1 -> "gold"
                                        [] k = 2 -> "silver"
                                        [] k = 3 -> "bronze"
                                        [] OTHER -> "")
            /\ \A k \in 1..(Len(out) - 1) :
                   out[k].total * out[k + 1].count
                       >= out[k + 1].total * out[k].count

\* C10: when save_entry returns False the check-in is not reported as saved
\* and checkin_done is not set.
C10_SubmitChecksResult ==
    op = "submit" /\ ret = "False" =>
        /\ "check-in saved" \notin shown
        /\ ~ session.checkin_done

====
